---- MODULE Spec2Model ----
(***************************************************************************)
(* Model of the RunPod ComfyUI face-swap worker (src/handler.py): the      *)
(* op_faceswap pipeline  load -> patch -> queue -> wait -> collect ->      *)
(* deliver, and the ComfyUI backend it talks to over HTTP.                 *)
(*                                                                         *)
(* Text is modelled as sequences of text pieces: an f-string is the        *)
(* concatenation of its pieces, a class_type is the sequence of its words. *)
(* Time is counted in seconds; only time.sleep(1.0) advances the clock.    *)
(***************************************************************************)
EXTENDS Integers, Sequences, FiniteSets, TLC

\* ---------------------------------------------------------------- bounds
MaxNodes == 3        \* nodes in a workflow document
Timeout == 3         \* seconds given to _wait_prompt_done (900 in op_faceswap, scaled)
MaxOutNodes == 2     \* output-producing nodes in a history entry
MaxImgs == 1         \* images per output node
NRuns == 2           \* op_faceswap calls in flight at once
NRepos == 3          \* entries of REPOS (8 in install_custom_nodes.py, scaled)

\* ------------------------------------------------------- program constants
RetryTotal == 3      \* Retry(total=3)
PollInterval == 1    \* time.sleep(1.0)
Tries == 3           \* clone_with_retry(url, dest, tries=3)

VARIABLES
    event,      \* the request body op_faceswap was called with
    downloads,  \* number of _download_image_to calls made
    s3put,      \* outcome of the _upload_to_s3 call: "none", "ok" or "failed"
    pc,         \* position of op_faceswap
    useS3,      \* USE_S3
    template,   \* content of the workflow file at WORKFLOW_PATH
    loaded,     \* content of the dict object returned by _load_workflow
    wf,         \* content of the object op_faceswap's local wf refers to
    retPref,    \* ret_pref
    posts,      \* payloads POSTed to /prompt
    submitReply,\* what HTTP.post gave _queue_prompt
    promptId,   \* prompt_id returned by _queue_prompt
    job,        \* backend: state of the queued job
    polls,      \* number of GET /history/{prompt_id} calls
    misses,     \* how many of them were answered 404 or without the prompt id
    clock,      \* time.time(), relative to the start of the wait
    deadline,   \* deadline of _wait_prompt_done
    last,       \* local `last` of _wait_prompt_done
    hist,       \* value returned by _wait_prompt_done
    images,     \* value returned by _collect_images_from_history
    response    \* what op_faceswap returned

\* One run of the loop of _patch_workflow_images, node by node
VARIABLES
    sfile,      \* the workflow as it was passed in
    sdoc,       \* the workflow object the loop is assigning into
    si,         \* position of the node the loop examines next
    scount,     \* local `count`
    scounted,   \* positions of the nodes the loop counted, in the order met
    spc         \* "loop", "returned" or "raised" ("off": not under study)

\* Several calls of op_faceswap interleaved (lines 262-282 of each)
VARIABLES
    cfile,      \* content of the workflow file at WORKFLOW_PATH
    cpc,        \* per run: "fetch", "load", "patch", "queue" or "posted"
    cref,       \* per run: the object its local wf refers to (0: none yet)
    cpos,       \* per run: position of the node its patch loop examines next
    ccount,     \* per run: local `count` of its patch loop
    heap,       \* the workflow objects made by json.load, in order of creation
    cfiles,     \* INPUT_DIR: <<name, run>> for each file, run being who wrote it last
    cposts      \* per run: the graph it POSTed to /prompt

\* The dispatcher `handler`
VARIABLES
    hevent,     \* the event handler(event) was called with
    hpc,        \* "dispatch", "op" (inside func(payload)), "done" ("off": not under study)
    hcalled,    \* name under which the invoked function is registered in OPS, or None
    hpayload,   \* keys of the payload it was invoked with
    hout        \* how the call of handler ended: a response, or an exception let out

\* main of install_custom_nodes.py
VARIABLES
    ipc,        \* "next" (head of the loop over REPOS), "clone", "reqs", "done" ("off": not under study)
    irepo,      \* index in REPOS of the url the loop is at
    itry,       \* local i of clone_with_retry
    ipresent,   \* repositories whose dest existed when main started
    ileft,      \* repositories whose dest was left behind by a failed git clone
    iattempts,  \* per repository: git clone commands run
    icloned,    \* repositories for which clone_with_retry returned True
    igaveup,    \* repositories for which clone_with_retry returned False
    ipip,       \* per repository: "none", "nofile", "ok" or "failed" pip install of its requirements
    irepin      \* the final transformers re-pin: "none", "ok" or "failed"

workerVars == <<event, downloads, s3put, pc, useS3, template, loaded, wf, retPref, posts,
                submitReply, promptId, job, polls, misses, clock, deadline, last, hist,
                images, response>>

scanVars == <<sfile, sdoc, si, scount, scounted, spc>>

concVars == <<cfile, cpc, cref, cpos, ccount, heap, cfiles, cposts>>

handlerVars == <<hevent, hpc, hcalled, hpayload, hout>>

installVars == <<ipc, irepo, itry, ipresent, ileft, iattempts, icloned, igaveup, ipip, irepin>>

\* what the steps of op_faceswap leave alone
others == <<scanVars, concVars, handlerVars, installVars>>

\* what the steps of the patch loop under study leave alone
notScan == <<workerVars, concVars, handlerVars, installVars>>

\* what the steps of the interleaved calls leave alone
notConc == <<workerVars, scanVars, handlerVars, installVars>>

\* what the steps of the dispatcher leave alone
notHandler == <<workerVars, scanVars, concVars, installVars>>

\* what the steps of the installer leave alone
notInstall == <<workerVars, scanVars, concVars, handlerVars>>

vars == <<event, downloads, s3put, pc, useS3, template, loaded, wf, retPref, posts, submitReply,
          promptId, job, polls, misses, clock, deadline, last, hist, images, response,
          sfile, sdoc, si, scount, scounted, spc,
          cfile, cpc, cref, cpos, ccount, heap, cfiles, cposts,
          hevent, hpc, hcalled, hpayload, hout,
          ipc, irepo, itry, ipresent, ileft, iattempts, icloned, igaveup, ipip, irepin>>

None == "<None>"
Absent == "<absent>"

\* ------------------------------------------------------- workflow documents
\* A node of the JSON document.  isdict: the node is a JSON object;
\* ctstr: class_type (when present) is a string; ct: its words (<<>> when the
\* key is missing, which node.get("class_type", "") turns into "");
\* indict: "inputs" is present and is a JSON object; image: inputs["image"]
\* (Absent when the key is missing); aux: another parameter of the node.
MkNode(isdict, ctstr, ct, indict, image, aux) ==
    [isdict |-> isdict, ctstr |-> ctstr, ct |-> ct, indict |-> indict,
     image |-> image, aux |-> aux]

NodeAlphabet ==
    { MkNode(TRUE, TRUE, <<"Load", "Image">>, TRUE, "tmpl.png", "upload"),
      MkNode(TRUE, TRUE, <<"LOAD", "IMAGE", "Mask">>, TRUE, Absent, "alpha"),
      MkNode(TRUE, TRUE, <<"Load", "Image">>, FALSE, Absent, Absent),
      MkNode(TRUE, TRUE, <<"Save", "Image">>, TRUE, Absent, "swap"),
      MkNode(TRUE, FALSE, <<>>, TRUE, "tmpl.png", "upload"),
      MkNode(FALSE, FALSE, <<>>, FALSE, Absent, Absent) }

SeqsUpTo(S, n) == UNION { [1..k -> S] : k \in 0..n }

Graphs == SeqsUpTo(NodeAlphabet, MaxNodes)

\* The workflow of the worker's own scenario: two LoadImage nodes and a SaveImage
ReferenceDoc ==
    << MkNode(TRUE, TRUE, <<"Load", "Image">>, TRUE, "tmpl.png", "upload"),
       MkNode(TRUE, TRUE, <<"Load", "Image">>, TRUE, "tmpl.png", "upload"),
       MkNode(TRUE, TRUE, <<"Save", "Image">>, TRUE, Absent, "swap") >>

NoGraph == << [isdict |-> FALSE, ctstr |-> FALSE, ct |-> <<None>>, indict |-> FALSE,
               image |-> None, aux |-> None] >>

\* str.lower() on the words of a class_type
LowerWord(w) ==
    CASE w \in {"Load", "LOAD", "load"} -> "load"
      [] w \in {"Image", "IMAGE", "image"} -> "image"
      [] w \in {"Mask", "MASK", "mask"} -> "mask"
      [] w \in {"Save", "SAVE", "save"} -> "save"
      [] OTHER -> w

Lower(s) == [i \in 1..Len(s) |-> LowerWord(s[i])]

StartsWith(s, p) == Len(s) >= Len(p) /\ \A i \in 1..Len(p) : s[i] = p[i]

\* isinstance(node, dict) and node.get("class_type", "").lower().startswith("loadimage")
IsLoadImage(node) ==
    node.isdict /\ node.ctstr /\ StartsWith(Lower(node.ct), <<"load", "image">>)

\* "inputs" in node and isinstance(node["inputs"], dict)
HasInputs(node) == node.indict

\* .lower() on a class_type that is not a string raises AttributeError
LowerRaises(node) == node.isdict /\ ~node.ctstr

\* job_id-derived basenames (one request: one job_id)
src_name == "source_job1.png"
tgt_name == "target_job1.png"

\* a loop that keeps writing the target name into every later counted node
RECURSIVE PatchFromGreedy(_, _, _, _, _)
PatchFromGreedy(doc, i, count, source_name, target_name) ==
    IF i > Len(doc) THEN [doc |-> doc, raised |-> FALSE]
    ELSE IF LowerRaises(doc[i]) THEN [doc |-> doc, raised |-> TRUE]
    ELSE IF IsLoadImage(doc[i]) /\ HasInputs(doc[i]) THEN
        LET node == IF count = 0 THEN [doc[i] EXCEPT !.image = source_name]
                    ELSE [doc[i] EXCEPT !.image = target_name]
        IN PatchFromGreedy([doc EXCEPT ![i] = node], i + 1, count + 1, source_name, target_name)
    ELSE PatchFromGreedy(doc, i + 1, count, source_name, target_name)

\* The loop of _patch_workflow_images from node i on, `count` nodes patched so far.
RECURSIVE PatchFrom(_, _, _, _, _)
PatchFrom(doc, i, count, source_name, target_name) ==
    IF i > Len(doc) THEN [doc |-> doc, raised |-> FALSE]
    ELSE IF LowerRaises(doc[i]) THEN [doc |-> doc, raised |-> TRUE]
    ELSE IF IsLoadImage(doc[i]) /\ HasInputs(doc[i]) THEN
        LET node == IF count = 0 THEN [doc[i] EXCEPT !.image = source_name]
                    ELSE IF count = 1 THEN [doc[i] EXCEPT !.image = target_name]
                    ELSE doc[i]
        IN PatchFrom([doc EXCEPT ![i] = node], i + 1, count + 1, source_name, target_name)
    ELSE PatchFrom(doc, i + 1, count, source_name, target_name)

\* the loop with the two roles exchanged
PatchRolesSwapped(workflow, source_name, target_name) ==
    PatchFrom(workflow, 1, 0, target_name, source_name)

patch_workflow_images(workflow, source_name, target_name) ==
    PatchFrom(workflow, 1, 0, source_name, target_name)

\* Positions of the nodes the patch loop counts, in document order
RECURSIVE FindSlotsFrom(_, _)
FindSlotsFrom(doc, i) ==
    IF i > Len(doc) THEN <<>>
    ELSE IF IsLoadImage(doc[i]) /\ HasInputs(doc[i])
         THEN <<i>> \o FindSlotsFrom(doc, i + 1)
         ELSE FindSlotsFrom(doc, i + 1)

FindAssetSlots(doc) == FindSlotsFrom(doc, 1)

\* No node on which the patch loop raises
Patchable(doc) == \A i \in 1..Len(doc) : ~LowerRaises(doc[i])

\* ------------------------------------------------------------- responses
\* _resp_ok / _resp_err.  error, trace, value and note are pieces of text.
NoResponse ==
    [set |-> FALSE, ok |-> FALSE, error |-> <<>>, trace |-> <<>>, kind |-> "none",
     value |-> <<>>, note |-> <<>>]

resp_ok(kind, value, note) ==
    [set |-> TRUE, ok |-> TRUE, error |-> <<>>, trace |-> <<>>, kind |-> kind,
     value |-> value, note |-> note]

resp_err(msg, extra) ==
    [set |-> TRUE, ok |-> FALSE, error |-> msg, trace |-> extra, kind |-> "error",
     value |-> <<>>, note |-> <<>>]

\* --------------------------------------------------------------- exceptions
\* str(e) of the exceptions the pipeline can see
TimeoutErrorText == <<"ComfyUI prompt did not complete in time">>

\* requests' HTTPError from raise_for_status(): status, reason phrase and url;
\* the response body is not part of the message
HTTPErrorText(status, reason, url) ==
    <<status, " Client Error: ", reason, " for url: ", url>>

ConnectionErrorText(url) == <<"Max retries exceeded with url: ", url>>

JSONErrorText == <<"Expecting value: line 1 column 1 (char 0)">>

\* ------------------------------------------------------------ HTTP session
\* A request through the session of _make_session: `fails` leading attempts
\* hit a connection error or a status of status_forcelist and are retried;
\* with more than RetryTotal of them the call raises, otherwise the first
\* other answer `final` is what the caller sees.
SessionRequest(fails, final) ==
    IF fails > RetryTotal
    THEN [final EXCEPT !.kind = "raise", !.status = None, !.reason = None, !.body = None]
    ELSE final

Bodies == { "node n1 missing required input", "prompt has no outputs" }

\* answers of POST /prompt
PostAnswers ==
    { [kind |-> "ok_id", status |-> "200", reason |-> "OK", body |-> "p1"],
      [kind |-> "ok_noid", status |-> "200", reason |-> "OK", body |-> "{}"],
      [kind |-> "garbled", status |-> "200", reason |-> "OK", body |-> "<html>"] }
    \cup { [kind |-> "reject", status |-> "422", reason |-> "Unprocessable Entity",
            body |-> b] : b \in Bodies }

\* ------------------------------------------------------------ history entries
ImgA == [filename |-> "out.png", subfolder |-> "", type |-> "output", data |-> Absent]
ImgB == [filename |-> "prev.png", subfolder |-> "tmp", type |-> "temp", data |-> "QkFTRTY0"]
Imgs == {ImgA, ImgB}

\* outputs of a history entry: per output node, in backend order, its images
Outputs == SeqsUpTo(SeqsUpTo(Imgs, MaxImgs), MaxOutNodes)

\* Result payloads a completed job can carry: every payload for the reference
\* workflow, the one-image payload for the others (the product of documents
\* and payloads stays bounded; no code path relates the two).
OutputsFor(doc) == IF doc = ReferenceDoc THEN Outputs ELSE { << <<ImgA>> >> }

NoEntry ==
    [present |-> FALSE, completed |-> FALSE, status_str |-> None, reason |-> None,
     outputs |-> <<>>]

Entry(completed, status_str, reason, outputs) ==
    [present |-> TRUE, completed |-> completed, status_str |-> status_str,
     reason |-> reason, outputs |-> outputs]

FailureReasons == { "CUDA out of memory" }

\* answers of GET /history/{prompt_id}, by what the backend knows of the job:
\* a 404, a 200 whose JSON lacks the prompt id, a 200 that is not JSON, or a
\* 200 with the job's entry
HistReply(kind, entry) ==
    [kind |-> kind, status |-> None, reason |-> None, body |-> None, entry |-> entry]

HistoryAnswers(prompt_id, jobstate, payloads) ==
    { HistReply("garbled", NoEntry) } \cup
    (IF prompt_id = None \/ jobstate \in {"none", "queued"}
       THEN { HistReply("notfound", NoEntry), HistReply("absent", NoEntry) }
     ELSE IF jobstate = "running"
       THEN { HistReply("absent", NoEntry),
              HistReply("entry", Entry(FALSE, "running", None, <<>>)) }
     ELSE IF jobstate = "completed"
       THEN { HistReply("entry", Entry(TRUE, "success", None, o)) : o \in payloads }
     ELSE { HistReply("entry", Entry(FALSE, "error", r, <<>>)) : r \in FailureReasons })

\* ------------------------------------------------------------ collecting
\* entry built from one image of the history (lines 175-183)
ImageEntry(img) ==
    [filename |-> img.filename, subfolder |-> img.subfolder, type |-> img.type,
     image_base64 |-> img.data]

RECURSIVE Flatten(_)
Flatten(ss) == IF ss = <<>> THEN <<>> ELSE Head(ss) \o Flatten(Tail(ss))

collect_images_from_history(h) ==
    IF ~h.present THEN <<>>
    ELSE LET all == Flatten(h.outputs)
         IN [i \in 1..Len(all) |-> ImageEntry(all[i])]

\* ------------------------------------------------------------------ Init
NoReply == [kind |-> "none", status |-> None, reason |-> None, body |-> None]

\* request bodies: is a source / a target given (as url or b64), and "return"
Events == [source : BOOLEAN, target : BOOLEAN, ret : {"url", "b64", None, "json"}]

ScanOff ==
    /\ sfile = <<>>
    /\ sdoc = <<>>
    /\ si = 0
    /\ scount = 0
    /\ scounted = <<>>
    /\ spc = "off"

ConcOff ==
    /\ cfile = <<>>
    /\ cpc = <<>>
    /\ cref = <<>>
    /\ cpos = <<>>
    /\ ccount = <<>>
    /\ heap = <<>>
    /\ cfiles = {}
    /\ cposts = <<>>

NoEvent == [dict |-> FALSE, body |-> FALSE, op |-> Absent, extra |-> {}]

NoOutcome == [raised |-> FALSE, resp |-> NoResponse]

HandlerOff ==
    /\ hevent = NoEvent
    /\ hpc = "off"
    /\ hcalled = None
    /\ hpayload = {}
    /\ hout = NoOutcome

InstallOff ==
    /\ ipc = "off"
    /\ irepo = 0
    /\ itry = 0
    /\ ipresent = {}
    /\ ileft = {}
    /\ iattempts = <<>>
    /\ icloned = {}
    /\ igaveup = {}
    /\ ipip = <<>>
    /\ irepin = "none"

Init ==
    /\ InstallOff
    /\ ScanOff
    /\ ConcOff
    /\ HandlerOff
    /\ event \in Events
    /\ downloads = 0
    /\ s3put = "none"
    /\ pc = "start"
    /\ useS3 \in BOOLEAN
    /\ template \in Graphs
    /\ loaded = NoGraph
    /\ wf = NoGraph
    /\ retPref = None
    /\ posts = <<>>
    /\ submitReply = NoReply
    /\ promptId = None
    /\ job = "none"
    /\ polls = 0
    /\ misses = 0
    /\ clock = 0
    /\ deadline = 0
    /\ last = NoEntry
    /\ hist = NoEntry
    /\ images = <<>>
    /\ response = NoResponse

Return(r) == pc' = "done" /\ response' = r

Traceback(text) == <<"Traceback (most recent call last): ">> \o text

\* ------------------------------------------------------------- op_faceswap
\* a validation that lets any "return" value through
request_error_lax(ev) ==
    IF ~ev.source \/ ~ev.target
    THEN <<"Provide 'source_url'/'source_b64' and 'target_url'/'target_b64'.">>
    ELSE <<>>

\* lines 251-258: the error message for a request that is not acceptable,
\* <<>> for one that is
request_error(ev) ==
    IF ~ev.source \/ ~ev.target
    THEN <<"Provide 'source_url'/'source_b64' and 'target_url'/'target_b64'.">>
    ELSE IF ev.ret \notin {"url", "b64", None}
    THEN <<"Invalid 'return' value. Use 'url' or 'b64'.">>
    ELSE <<>>

\* lines 247-264: wait for ComfyUI, validate the request, name the inputs.
\* A RuntimeError of _wait_for_comfy leaves op_faceswap and is answered by
\* handler (lines 351-352).
Start ==
    /\ pc = "start"
    /\ \E comfyUp \in BOOLEAN :
          IF ~comfyUp THEN
              /\ Return(resp_err(<<"Unhandled error: ", "ComfyUI did not come up in time: ">>,
                                 Traceback(<<"ComfyUI did not come up in time: ">>)))
              /\ UNCHANGED retPref
          ELSE IF request_error(event) # <<>> THEN
              /\ Return(resp_err(request_error(event), <<>>))
              /\ UNCHANGED retPref
          ELSE
              /\ retPref' = IF event.ret = None THEN (IF useS3 THEN "url" ELSE "b64")
                            ELSE event.ret
              /\ pc' = "fetch"
              /\ UNCHANGED response
    /\ UNCHANGED <<others, event, downloads, s3put, useS3, template, loaded, wf, posts, submitReply, promptId, job,
                   polls, misses, clock, deadline, last, hist, images>>

\* lines 266-270: _download_image_to for source, then for target; the first
\* one that raises ends the request
Fetch ==
    /\ pc = "fetch"
    /\ \E made \in 1..2, fetched \in BOOLEAN :
          /\ fetched => made = 2
          /\ downloads' = downloads + made
          /\ IF fetched THEN pc' = "load" /\ UNCHANGED response
             ELSE Return(resp_err(<<"Failed to fetch inputs: ", "download failed">>, <<>>))
    /\ UNCHANGED <<others, event, s3put, useS3, template, loaded, wf, retPref, posts, submitReply, promptId,
                   job, polls, misses, clock, deadline, last, hist, images>>

\* line 274: wf = _load_workflow()
Load ==
    /\ pc = "load"
    /\ \E exists \in BOOLEAN :
          IF exists THEN
              /\ loaded' = template
              /\ wf' = template
              /\ pc' = "patch"
              /\ UNCHANGED response
          ELSE
              /\ Return(resp_err(<<"Workflow error: ", "Workflow not found at ", "WORKFLOW_PATH">>, <<>>))
              /\ UNCHANGED <<loaded, wf>>
    /\ UNCHANGED <<others, event, downloads, s3put, useS3, template, retPref, posts, submitReply, promptId, job, polls, misses,
                   clock, deadline, last, hist, images>>

\* line 275: wf = _patch_workflow_images(wf, src_name, tgt_name).  The loop
\* assigns into the nodes of the object it was given and returns that object.
Patch ==
    /\ pc = "patch"
    /\ LET res == patch_workflow_images(loaded, src_name, tgt_name) IN
          /\ loaded' = res.doc
          /\ IF res.raised THEN
                 /\ wf' = res.doc
                 /\ Return(resp_err(<<"Workflow error: ", "object has no attribute 'lower'">>, <<>>))
             ELSE
                 /\ wf' = res.doc
                 /\ pc' = "queue"
                 /\ UNCHANGED response
    /\ UNCHANGED <<others, event, downloads, s3put, useS3, template, retPref, posts, submitReply, promptId, job, polls, misses,
                   clock, deadline, last, hist, images>>

\* line 281 with lines 140-144: POST the workflow; on a prompt id (or None)
\* line 282 enters _wait_prompt_done, whose first line sets the deadline.
Queue ==
    /\ pc = "queue"
    /\ posts' = Append(posts, wf)
    /\ \E fails \in 0..(RetryTotal + 1), final \in PostAnswers :
          LET r == SessionRequest(fails, final) IN
          /\ submitReply' = r
          /\ CASE r.kind = "raise" ->
                    /\ Return(resp_err(<<"Pipeline failed: ">> \o ConnectionErrorText("/prompt"),
                                       Traceback(ConnectionErrorText("/prompt"))))
                    /\ UNCHANGED <<promptId, job, deadline>>
               [] r.kind = "reject" ->
                    /\ Return(resp_err(<<"Pipeline failed: ">>
                                           \o HTTPErrorText(r.status, r.reason, "/prompt"),
                                       Traceback(HTTPErrorText(r.status, r.reason, "/prompt"))))
                    /\ UNCHANGED <<promptId, job, deadline>>
               [] r.kind = "garbled" ->
                    /\ Return(resp_err(<<"Pipeline failed: ">> \o JSONErrorText,
                                       Traceback(JSONErrorText)))
                    /\ UNCHANGED <<promptId, job, deadline>>
               [] r.kind = "ok_noid" ->
                    /\ promptId' = None
                    /\ job' = "none"
                    /\ deadline' = clock + Timeout
                    /\ pc' = "wait"
                    /\ UNCHANGED response
               [] r.kind = "ok_id" ->
                    /\ promptId' = r.body
                    /\ job' = "queued"
                    /\ deadline' = clock + Timeout
                    /\ pc' = "wait"
                    /\ UNCHANGED response
    /\ UNCHANGED <<others, event, downloads, s3put, useS3, template, loaded, wf, retPref, polls, misses, clock, last, hist, images>>

\* a turn that calls r.raise_for_status(): a 404 ends the wait
wait_turn_strict(r) ==
    CASE r.kind = "raise" -> [next |-> "raise", text |-> ConnectionErrorText("/history")]
      [] r.kind = "garbled" -> [next |-> "raise", text |-> JSONErrorText]
      [] r.kind = "notfound" ->
           [next |-> "raise", text |-> HTTPErrorText("404", "Not Found", "/history")]
      [] r.kind = "absent" -> [next |-> "sleep", text |-> <<>>]
      [] r.kind = "entry" ->
           IF r.entry.completed THEN [next |-> "return", text |-> <<>>]
           ELSE [next |-> "sleep", text |-> <<>>]

\* lines 150-157: what one turn of the loop makes of the answer r to its GET:
\* "raise" (the call or r.json() raised), "return" (completed entry) or "sleep"
wait_turn(r) ==
    CASE r.kind = "raise" -> [next |-> "raise", text |-> ConnectionErrorText("/history")]
      [] r.kind = "garbled" -> [next |-> "raise", text |-> JSONErrorText]
      [] r.kind \in {"notfound", "absent"} -> [next |-> "sleep", text |-> <<>>]
      [] r.kind = "entry" ->
           IF r.entry.completed THEN [next |-> "return", text |-> <<>>]
           ELSE [next |-> "sleep", text |-> <<>>]

\* lines 149-157: one turn of the loop of _wait_prompt_done up to the sleep
Poll ==
    /\ pc = "wait"
    /\ clock < deadline
    /\ polls' = polls + 1
    /\ \E fails \in 0..(RetryTotal + 1), final \in HistoryAnswers(promptId, job, OutputsFor(template)) :
          LET r == SessionRequest(fails, final)
              t == wait_turn(r)
          IN
          /\ misses' = IF r.kind \in {"notfound", "absent"} THEN misses + 1 ELSE misses
          /\ last' = IF r.kind = "entry" THEN r.entry ELSE last
          /\ CASE t.next = "raise" ->
                    /\ Return(resp_err(<<"Pipeline failed: ">> \o t.text, Traceback(t.text)))
                    /\ UNCHANGED hist
               [] t.next = "sleep" ->
                    /\ pc' = "sleep"
                    /\ UNCHANGED <<hist, response>>
               [] t.next = "return" ->
                    /\ hist' = last'
                    /\ pc' = "collect"
                    /\ UNCHANGED response
    /\ UNCHANGED <<others, event, downloads, s3put, useS3, template, loaded, wf, retPref, posts, submitReply, promptId,
                   job, clock, deadline, images>>

\* line 158: time.sleep(1.0)
Sleep ==
    /\ pc = "sleep"
    /\ clock' = clock + PollInterval
    /\ pc' = "wait"
    /\ UNCHANGED <<others, event, downloads, s3put, useS3, template, loaded, wf, retPref, posts, submitReply, promptId,
                   job, polls, misses, deadline, last, hist, images, response>>

\* a wait that hands back `last` at the deadline instead of raising
TimedOutReturnsLast ==
    /\ pc = "wait"
    /\ ~(clock < deadline)
    /\ hist' = last
    /\ pc' = "collect"
    /\ UNCHANGED <<others, event, downloads, s3put, useS3, template, loaded, wf, retPref, posts, submitReply,
                   promptId, job, polls, misses, clock, deadline, last, images, response>>

\* a wait that interrupts the backend job when it gives up
TimedOutInterrupts ==
    /\ pc = "wait"
    /\ ~(clock < deadline)
    /\ job' = IF job \in {"queued", "running"} THEN "interrupted" ELSE job
    /\ Return(resp_err(<<"Pipeline failed: ">> \o TimeoutErrorText, Traceback(TimeoutErrorText)))
    /\ UNCHANGED <<others, event, downloads, s3put, useS3, template, loaded, wf, retPref, posts, submitReply,
                   promptId, polls, misses, clock, deadline, last, hist, images>>

\* a wait whose give-up test is off by one against the loop's test
TimedOutLate ==
    /\ pc = "wait"
    /\ clock > deadline
    /\ Return(resp_err(<<"Pipeline failed: ">> \o TimeoutErrorText, Traceback(TimeoutErrorText)))
    /\ UNCHANGED <<others, event, downloads, s3put, useS3, template, loaded, wf, retPref, posts, submitReply,
                   promptId, job, polls, misses, clock, deadline, last, hist, images>>

\* lines 149 and 159: the deadline has passed; TimeoutError reaches line 286
TimedOut ==
    /\ pc = "wait"
    /\ ~(clock < deadline)
    /\ Return(resp_err(<<"Pipeline failed: ">> \o TimeoutErrorText, Traceback(TimeoutErrorText)))
    /\ UNCHANGED <<others, event, downloads, s3put, useS3, template, loaded, wf, retPref, posts, submitReply, promptId,
                   job, polls, misses, clock, deadline, last, hist, images>>

\* lines 283-285
Collect ==
    /\ pc = "collect"
    /\ images' = collect_images_from_history(hist)
    /\ IF images' = <<>>
       THEN Return(resp_err(<<"No images produced by workflow.">>, <<>>))
       ELSE pc' = "deliver" /\ UNCHANGED response
    /\ UNCHANGED <<others, event, downloads, s3put, useS3, template, loaded, wf, retPref, posts, submitReply, promptId,
                   job, polls, misses, clock, deadline, last, hist>>

\* an upload failure that is reported as the request's error
upload_failed_fatal(first) ==
    resp_err(<<"S3 upload failed: ", "upload error">>, <<>>)

\* lines 308-315: the upload raised; the file on disk goes back as base64
upload_failed_response(first) ==
    resp_ok("result_b64", <<"disk", first.subfolder, first.filename>>,
            <<"S3 upload failed: ", "upload error">>)

\* lines 289-326: the first image goes back as a presigned URL or as base64
Deliver ==
    /\ pc = "deliver"
    /\ LET first == images[1] IN
       \E onDisk \in BOOLEAN, uploaded \in BOOLEAN :
          IF retPref = "url" /\ useS3 THEN
              IF ~onDisk THEN
                  /\ Return(resp_err(<<"Output file not found on disk to upload.">>, <<>>))
                  /\ UNCHANGED s3put
              ELSE IF uploaded THEN
                  /\ Return(resp_ok("result_url", <<"s3", first.filename>>, <<>>))
                  /\ s3put' = "ok"
              ELSE
                  /\ Return(upload_failed_response(first))
                  /\ s3put' = "failed"
          ELSE
              /\ UNCHANGED s3put
              /\ IF onDisk THEN
                     Return(resp_ok("result_b64", <<"disk", first.subfolder, first.filename>>, <<>>))
                 ELSE IF first.image_base64 # Absent THEN
                     Return(resp_ok("result_b64", <<"data", first.image_base64>>, <<>>))
                 ELSE
                     Return(resp_err(<<"Output image bytes unavailable.">>, <<>>))
    /\ UNCHANGED <<others, event, downloads, useS3, template, loaded, wf, retPref, posts, submitReply,
                   promptId, job, polls, misses, clock, deadline, last, hist, images>>

\* ----------------------------------------------------------------- backend
\* The backend runs the queued job on its own: queued -> running ->
\* completed | failed.  Seen by the worker only through GET /history.
BackendStep ==
    /\ pc \in {"wait", "sleep"}
    /\ \/ job = "queued" /\ job' = "running"
       \/ job = "running" /\ job' \in {"completed", "failed"}
    /\ UNCHANGED <<others, event, downloads, s3put, pc, useS3, template, loaded, wf, retPref, posts, submitReply, promptId,
                   polls, misses, clock, deadline, last, hist, images, response>>

Next ==
    \/ Start
    \/ Fetch
    \/ Load
    \/ Patch
    \/ Queue
    \/ Poll
    \/ Sleep
    \/ TimedOut
    \/ Collect
    \/ Deliver
    \/ BackendStep

Spec == Init /\ [][Next]_vars

\* no request in the worker
WorkerOff ==
    /\ event = [source |-> FALSE, target |-> FALSE, ret |-> None]
    /\ downloads = 0
    /\ s3put = "none"
    /\ pc = "off"
    /\ useS3 = FALSE
    /\ template = <<>>
    /\ loaded = NoGraph
    /\ wf = NoGraph
    /\ retPref = None
    /\ posts = <<>>
    /\ submitReply = NoReply
    /\ promptId = None
    /\ job = "none"
    /\ polls = 0
    /\ misses = 0
    /\ clock = 0
    /\ deadline = 0
    /\ last = NoEntry
    /\ hist = NoEntry
    /\ images = <<>>
    /\ response = NoResponse

\* ------------------------------------------- _patch_workflow_images, stepwise
\* Nodes for the scan: those of NodeAlphabet, a node whose class_type holds
\* "load" and "image" without starting with "loadimage", and a node of
\* another kind with a string "image" parameter
ScanAlphabet ==
    NodeAlphabet \cup
    { MkNode(TRUE, TRUE, <<"Image", "Load">>, TRUE, "tmpl.png", "upload"),
      MkNode(TRUE, TRUE, <<"Save", "Image">>, TRUE, "tmpl.png", "swap") }

ScanInit ==
    /\ WorkerOff
    /\ InstallOff
    /\ ConcOff
    /\ HandlerOff
    /\ sfile \in SeqsUpTo(ScanAlphabet, MaxNodes)
    /\ sdoc = sfile
    /\ si = 1
    /\ scount = 0
    /\ scounted = <<>>
    /\ spc = "loop"

\* lines 130-137: one iteration of `for node_id, node in workflow.items()`
ScanNode ==
    /\ spc = "loop"
    /\ si <= Len(sdoc)
    /\ IF LowerRaises(sdoc[si]) THEN
           /\ spc' = "raised"
           /\ UNCHANGED <<sdoc, si, scount, scounted>>
       ELSE IF IsLoadImage(sdoc[si]) /\ HasInputs(sdoc[si]) THEN
           /\ sdoc' = IF scount = 0 THEN [sdoc EXCEPT ![si].image = src_name]
                      ELSE IF scount = 1 THEN [sdoc EXCEPT ![si].image = tgt_name]
                      ELSE sdoc
           /\ scount' = scount + 1
           /\ scounted' = Append(scounted, si)
           /\ si' = si + 1
           /\ UNCHANGED spc
       ELSE
           /\ si' = si + 1
           /\ UNCHANGED <<sdoc, scount, scounted, spc>>
    /\ UNCHANGED <<notScan, sfile>>

\* line 138: return workflow
ScanReturn ==
    /\ spc = "loop"
    /\ si > Len(sdoc)
    /\ spc' = "returned"
    /\ UNCHANGED <<notScan, sfile, sdoc, si, scount, scounted>>

ScanNext == ScanNode \/ ScanReturn

SpecScan == ScanInit /\ [][ScanNext]_vars

\* ------------------------------------------------- interleaved op_faceswap calls
Runs == 1..NRuns

\* lines 262-264: f"source_{job_id}.png" and f"target_{job_id}.png" of each
\* run; the job ids of runs in flight are taken to differ
SourceNames == <<"source_job1.png", "source_job2.png", "source_job3.png">>
TargetNames == <<"target_job1.png", "target_job2.png", "target_job3.png">>

source_of(r) == SourceNames[r]
target_of(r) == TargetNames[r]

ConcAlphabet ==
    { MkNode(TRUE, TRUE, <<"Load", "Image">>, TRUE, "tmpl.png", "upload"),
      MkNode(TRUE, TRUE, <<"Save", "Image">>, TRUE, Absent, "swap") }

\* a loader that keeps the first object it made and hands it to every caller
cached_object(h) == 1

\* lines 117-121: json.load builds a new object at every call
new_object(h) == Len(h) + 1

ConcInit ==
    /\ WorkerOff
    /\ InstallOff
    /\ ScanOff
    /\ HandlerOff
    /\ cfile \in SeqsUpTo(ConcAlphabet, MaxNodes)
    /\ cpc = [r \in Runs |-> "fetch"]
    /\ cref = [r \in Runs |-> 0]
    /\ cpos = [r \in Runs |-> 0]
    /\ ccount = [r \in Runs |-> 0]
    /\ heap = <<>>
    /\ cfiles = {}
    /\ cposts = [r \in Runs |-> NoGraph]

\* lines 267-268: the run writes its two input files into INPUT_DIR
ConcFetch(r) ==
    /\ cpc[r] = "fetch"
    /\ cfiles' = { f \in cfiles : f[1] \notin {source_of(r), target_of(r)} }
                   \cup {<<source_of(r), r>>, <<target_of(r), r>>}
    /\ cpc' = [cpc EXCEPT ![r] = "load"]
    /\ UNCHANGED <<notConc, cfile, cref, cpos, ccount, heap, cposts>>

\* line 274: wf = _load_workflow()
ConcLoad(r) ==
    /\ cpc[r] = "load"
    /\ LET id == new_object(heap) IN
          /\ heap' = IF id > Len(heap) THEN Append(heap, cfile) ELSE heap
          /\ cref' = [cref EXCEPT ![r] = id]
    /\ cpos' = [cpos EXCEPT ![r] = 1]
    /\ cpc' = [cpc EXCEPT ![r] = "patch"]
    /\ UNCHANGED <<notConc, cfile, ccount, cfiles, cposts>>

\* lines 130-137, one iteration of the run's patch loop on its object
ConcPatchNode(r) ==
    /\ cpc[r] = "patch"
    /\ cpos[r] <= Len(heap[cref[r]])
    /\ LET o == cref[r]
           i == cpos[r]
       IN IF IsLoadImage(heap[o][i]) /\ HasInputs(heap[o][i]) THEN
              /\ heap' = IF ccount[r] = 0 THEN [heap EXCEPT ![o][i].image = source_of(r)]
                         ELSE IF ccount[r] = 1 THEN [heap EXCEPT ![o][i].image = target_of(r)]
                         ELSE heap
              /\ ccount' = [ccount EXCEPT ![r] = @ + 1]
          ELSE UNCHANGED <<heap, ccount>>
    /\ cpos' = [cpos EXCEPT ![r] = @ + 1]
    /\ UNCHANGED <<notConc, cfile, cpc, cref, cfiles, cposts>>

\* line 138 and line 275: the loop is over, wf is the patched object
ConcPatchReturn(r) ==
    /\ cpc[r] = "patch"
    /\ cpos[r] > Len(heap[cref[r]])
    /\ cpc' = [cpc EXCEPT ![r] = "queue"]
    /\ UNCHANGED <<notConc, cfile, cref, cpos, ccount, heap, cfiles, cposts>>

\* line 281 with 141-142: the object is serialised into the POST as it is now
ConcQueue(r) ==
    /\ cpc[r] = "queue"
    /\ cposts' = [cposts EXCEPT ![r] = heap[cref[r]]]
    /\ cpc' = [cpc EXCEPT ![r] = "posted"]
    /\ UNCHANGED <<notConc, cfile, cref, cpos, ccount, heap, cfiles>>

ConcNext ==
    \E r \in Runs :
        \/ ConcFetch(r)
        \/ ConcLoad(r)
        \/ ConcPatchNode(r)
        \/ ConcPatchReturn(r)
        \/ ConcQueue(r)

SpecConc == ConcInit /\ [][ConcNext]_vars

\* ------------------------------------------------------------------ handler
\* lines 331-336: the names registered in OPS
OPS == {"ping", "health_check", "version", "faceswap"}

\* Values body["op"] can hold, as JSON gives them: the key missing, null, the
\* empty string, the numbers 0 and 7, a list, registered names, other names
OpValues == {Absent, None, "", "<0>", "<7>", "<['ping']>", "swap", "Ping"} \cup OPS

\* `not op`
Falsy(op) == op \in {Absent, None, "", "<0>"}

\* OPS.get(op) raises TypeError on a key that cannot be hashed
Unhashable(op) == op = "<['ping']>"

ExtraKeys == {"source_url", "target_url", "return"}

\* dict: isinstance(event, dict); body: event.get("input") is a dict;
\* op: body.get("op"); extra: the other keys of the body
HandlerEvents ==
    {[dict |-> FALSE, body |-> FALSE, op |-> Absent, extra |-> {}],
     [dict |-> TRUE, body |-> FALSE, op |-> Absent, extra |-> {}]}
    \cup [dict : {TRUE}, body : {TRUE}, op : OpValues, extra : SUBSET ExtraKeys]

\* keys of the body
body_keys(ev) == ev.extra \cup (IF ev.op = Absent THEN {} ELSE {"op"})

\* a payload that is the body as it came
payload_whole(ev) == body_keys(ev)

\* line 349: {k: v for k, v in body.items() if k != "op"}
payload_of(ev) == body_keys(ev) \ {"op"}

\* How a registered function can end: with _resp_ok, with _resp_err, or with
\* an exception.  op_ping only builds a dict; op_health_check lets
\* _wait_for_comfy raise; op_version catches it; op_faceswap returns either
\* response and runs lines 247-248 outside any try.
OpEndings(name) ==
    CASE name = "ping" -> {"ok"}
      [] name = "health_check" -> {"ok", "raise"}
      [] name = "version" -> {"ok"}
      [] name = "faceswap" -> {"ok", "err", "raise"}

\* lines 351-352: except Exception
on_exception_reraise(text) == [raised |-> TRUE, resp |-> NoResponse]

on_exception(text) ==
    [raised |-> FALSE,
     resp |-> resp_err(<<"Unhandled error: ", text>>, Traceback(<<text>>))]

Returned(r) == [raised |-> FALSE, resp |-> r]

HandlerInit ==
    /\ WorkerOff
    /\ InstallOff
    /\ ScanOff
    /\ ConcOff
    /\ hevent \in HandlerEvents
    /\ hpc = "dispatch"
    /\ hcalled = None
    /\ hpayload = {}
    /\ hout = NoOutcome

\* lines 340-349, up to the call of func
Dispatch ==
    /\ hpc = "dispatch"
    /\ IF ~hevent.dict \/ ~hevent.body THEN
           /\ hout' = Returned(resp_err(<<"Invalid request body.">>, <<>>))
           /\ hpc' = "done"
           /\ UNCHANGED <<hcalled, hpayload>>
       ELSE IF Falsy(hevent.op) THEN
           /\ hout' = Returned(resp_err(<<"Missing 'op'.">>, <<>>))
           /\ hpc' = "done"
           /\ UNCHANGED <<hcalled, hpayload>>
       ELSE IF Unhashable(hevent.op) THEN
           /\ hout' = on_exception("unhashable type: 'list'")
           /\ hpc' = "done"
           /\ UNCHANGED <<hcalled, hpayload>>
       ELSE IF hevent.op \notin OPS THEN
           /\ hout' = Returned(resp_err(<<"Unknown op '", hevent.op, "'">>, <<>>))
           /\ hpc' = "done"
           /\ UNCHANGED <<hcalled, hpayload>>
       ELSE
           /\ hcalled' = hevent.op
           /\ hpayload' = payload_of(hevent)
           /\ hpc' = "op"
           /\ UNCHANGED hout
    /\ UNCHANGED <<notHandler, hevent>>

\* line 350 (return func(payload)) and lines 351-352
OpEnds ==
    /\ hpc = "op"
    /\ \E ending \in OpEndings(hcalled) :
          hout' = CASE ending = "ok" -> Returned(resp_ok(hcalled, <<hcalled>>, <<>>))
                    [] ending = "err" -> Returned(resp_err(<<"Pipeline failed: ">>, <<>>))
                    [] ending = "raise" -> on_exception("ComfyUI not ready")
    /\ hpc' = "done"
    /\ UNCHANGED <<notHandler, hevent, hcalled, hpayload>>

HandlerNext == Dispatch \/ OpEnds

SpecHandler == HandlerInit /\ [][HandlerNext]_vars

\* ------------------------------------------------- install_custom_nodes.py
Repos == 1..NRepos

InstallInit ==
    /\ WorkerOff
    /\ ScanOff
    /\ ConcOff
    /\ HandlerOff
    /\ ipc = "next"
    /\ irepo = 1
    /\ itry = 0
    /\ ipresent \in SUBSET Repos
    /\ ileft = {}
    /\ iattempts = [r \in Repos |-> 0]
    /\ icloned = {}
    /\ igaveup = {}
    /\ ipip = [r \in Repos |-> "none"]
    /\ irepin = "none"

\* os.path.exists(dest)
dest_exists(r) == r \in ipresent \cup ileft \cup icloned

\* a main that stops at the first repository it could not clone
after_give_up_abort == "aborted"

\* lines 80-81: `continue` when clone_with_retry returned False
after_give_up == "next"

\* lines 72-79: the head of `for url in REPOS`
RepoHead ==
    /\ ipc = "next"
    /\ irepo <= NRepos
    /\ IF dest_exists(irepo) THEN
           /\ irepo' = irepo + 1
           /\ UNCHANGED <<ipc, itry>>
       ELSE
           /\ ipc' = "clone"
           /\ itry' = 1
           /\ UNCHANGED irepo
    /\ UNCHANGED <<notInstall, ipresent, ileft, iattempts, icloned, igaveup, ipip, irepin>>

\* lines 33-39: one attempt.  git clone exits 0, or exits with an error
\* (CalledProcessError), leaving dest behind or not; it cannot exit 0 into a
\* dest left behind by an earlier attempt.
CloneAttempt ==
    /\ ipc = "clone"
    /\ itry <= Tries
    /\ iattempts' = [iattempts EXCEPT ![irepo] = @ + 1]
    /\ \E exit0 \in BOOLEAN, leaves \in BOOLEAN :
          /\ exit0 => ~dest_exists(irepo)
          /\ exit0 => ~leaves
          /\ IF exit0 THEN
                 /\ icloned' = icloned \cup {irepo}
                 /\ ipc' = "reqs"
                 /\ UNCHANGED <<itry, ileft>>
             ELSE
                 /\ itry' = itry + 1
                 /\ ileft' = IF leaves THEN ileft \cup {irepo} ELSE ileft
                 /\ UNCHANGED <<icloned, ipc>>
    /\ UNCHANGED <<notInstall, irepo, ipresent, igaveup, ipip, irepin>>

\* lines 40-41 and 80-81: all attempts failed, main goes on to the next url
CloneGiveUp ==
    /\ ipc = "clone"
    /\ itry > Tries
    /\ igaveup' = igaveup \cup {irepo}
    /\ ipc' = after_give_up
    /\ irepo' = irepo + 1
    /\ UNCHANGED <<notInstall, itry, ipresent, ileft, iattempts, icloned, ipip, irepin>>

\* lines 83-96: requirements.txt, when the clone has one, is filtered and
\* installed; a pip that exits with an error is logged
Requirements ==
    /\ ipc = "reqs"
    /\ \E outcome \in {"nofile", "ok", "failed"} :
          ipip' = [ipip EXCEPT ![irepo] = outcome]
    /\ ipc' = "next"
    /\ irepo' = irepo + 1
    /\ UNCHANGED <<notInstall, itry, ipresent, ileft, iattempts, icloned, igaveup, irepin>>

\* lines 98-104: the re-pin of transformers and the [done] line
Repin ==
    /\ ipc = "next"
    /\ irepo > NRepos
    /\ \E outcome \in {"ok", "failed"} : irepin' = outcome
    /\ ipc' = "done"
    /\ UNCHANGED <<notInstall, irepo, itry, ipresent, ileft, iattempts, icloned, igaveup, ipip>>

InstallNext == RepoHead \/ CloneAttempt \/ CloneGiveUp \/ Requirements \/ Repin

\* main is one sequential process and every command it runs ends
SpecInstall == InstallInit /\ [][InstallNext]_vars /\ WF_vars(InstallNext)

\* The worker is one sequential thread that keeps running, and every call it
\* blocks on carries a timeout; the backend owes no progress.
Worker ==
    Start \/ Fetch \/ Load \/ Patch \/ Queue \/ Poll \/ Sleep \/ TimedOut \/ Collect \/ Deliver

LiveInit == Init /\ template \in {ReferenceDoc, <<>>}

LiveSpec == LiveInit /\ [][Next]_vars /\ WF_vars(Worker)

\* ====================================================================
\* Properties
\* ====================================================================
Pieces(text) == { text[i] : i \in 1..Len(text) }

TimeoutResponse ==
    /\ response.set
    /\ ~response.ok
    /\ response.error = <<"Pipeline failed: ">> \o TimeoutErrorText

\* _patch_workflow_images has run on the loaded document
PatchRan == pc # "patch" /\ loaded # NoGraph

\* the request's workflow is the intended kind: exactly two slots, no node the
\* patch loop raises on
TwoSlotJob == Patchable(template) /\ Len(FindAssetSlots(template)) = 2

\* _wait_prompt_done was entered
WaitEntered == submitReply.kind \in {"ok_id", "ok_noid"}

\* C1: for a workflow with exactly two nodes the patch loop counts (LoadImage
\* class_type, dict inputs) and string class_types throughout, the patched
\* document carries the source name in the first of them and the target name
\* in the second, in document order, and scanning the patched document again
\* finds the same two positions holding exactly these two names.
PatchBindsInOrder ==
    LET slots == FindAssetSlots(template) IN
    (PatchRan /\ Patchable(template) /\ Len(slots) = 2) =>
        /\ pc # "done" \/ response.error # <<"Workflow error: ", "object has no attribute 'lower'">>
        /\ wf[slots[1]].image = src_name
        /\ wf[slots[2]].image = tgt_name
        /\ FindAssetSlots(wf) = slots
        /\ [i \in 1..2 |-> wf[FindAssetSlots(wf)[i]].image] = <<src_name, tgt_name>>
        /\ posts # <<>> => posts[1] = wf

\* C1 witness: a patched two-slot workflow whose slots are not adjacent
PatchBindsInOrderWitness ==
    /\ pc = "queue"
    /\ FindAssetSlots(template) = <<1, 3>>
    /\ template[1].image # src_name
    /\ wf[1].image = src_name
    /\ wf[3].image = tgt_name

\* C2: the call of _patch_workflow_images leaves the document object it was
\* given as it was (the names are bound in a copy only).
PatchNonMutating == [][pc = "patch" => loaded' = loaded]_vars

\* C3: a workflow with fewer than two nodes that could take an image (LoadImage
\* kind or an image parameter) is never POSTed to /prompt and yields no success.
InsufficientSlotsNeverSubmitted ==
    LET candidates == { i \in 1..Len(template) :
                          template[i].isdict /\ (IsLoadImage(template[i]) \/ template[i].image # Absent) }
    IN Cardinality(candidates) < 2 => posts = <<>> /\ ~response.ok

\* C4: a workflow in which the patch loop finds more than two slots is reported
\* as an error: it is never POSTed with two slots bound and the rest ignored.
MoreThanTwoSlotsIsError ==
    Len(FindAssetSlots(template)) > 2 => posts = <<>> /\ ~response.ok

\* C5: for a two-slot workflow, a wait that ends without a completed entry (and without a failed job)
\* ends as a timeout, at or after the deadline, whatever status queries failed
\* on the way; and a timeout is only ever reported at or after the deadline.
AwaitEndsOnlyByTimeout ==
    /\ (TwoSlotJob /\ WaitEntered /\ pc = "done" /\ ~hist.present /\ last.status_str # "error"
          /\ response.error # <<"Pipeline failed: ">> \o JSONErrorText)
         => TimeoutResponse /\ clock >= deadline
    /\ TimeoutResponse => WaitEntered /\ clock >= deadline /\ ~hist.present

\* C6: for a two-slot workflow, once the backend has reported the job as failed, the request is over
\* with an error that carries the backend's failure reason; it is not left
\* waiting and not reported as a timeout.
FailedJobReported ==
    (TwoSlotJob /\ last.present /\ last.status_str = "error") =>
        /\ pc = "done"
        /\ ~response.ok
        /\ last.reason \in Pieces(response.error)
        /\ ~TimeoutResponse

\* C7: a status query answered 404 or without the prompt id only makes the
\* wait sleep and poll again (no response is produced by it), and a query that
\* finds the completed entry makes the wait return that entry, however many
\* such answers came before.
AwaitToleratesNotFound ==
    [][ /\ (misses' > misses => pc' = "sleep" /\ response' = response /\ polls' = polls + 1)
        /\ (pc = "sleep" => pc' = "wait" \/ pc' = "sleep")
        /\ (pc = "wait" /\ last'.completed /\ polls' > polls
              => pc' = "collect" /\ hist' = last' /\ ~response'.set) ]_vars

\* C7 witness: the wait returned the completed entry after 404/absent answers
AwaitToleratesNotFoundWitness ==
    /\ pc = "collect"
    /\ misses >= 2
    /\ hist.present /\ hist.completed

\* key a descriptor is de-duplicated on
DescriptorKey(e) == <<e.filename, e.subfolder, e.type>>

\* first occurrences, in order
RECURSIVE Dedup(_, _)
Dedup(es, seen) ==
    IF es = <<>> THEN <<>>
    ELSE IF DescriptorKey(Head(es)) \in seen THEN Dedup(Tail(es), seen)
    ELSE <<Head(es)>> \o Dedup(Tail(es), seen \cup {DescriptorKey(Head(es))})

\* C8: after collecting from a completed entry, no descriptors means the
\* "no images" error, and otherwise the collected list is the entry's
\* descriptors in backend order with duplicates on (name, subgroup, kind) removed.
CollectDedupInOrder ==
    LET all == Flatten(hist.outputs)
        descr == [i \in 1..Len(all) |-> ImageEntry(all[i])]
    IN (hist.present /\ pc \in {"deliver", "done"}) =>
          IF all = <<>>
          THEN pc = "done" /\ response = resp_err(<<"No images produced by workflow.">>, <<>>)
          ELSE images = Dedup(descr, {})

\* C9: for a two-slot workflow, a 200 answer to the POST without a prompt id makes the request fail
\* there: no GET /history is ever sent, and the request does not end as a
\* success or as a timeout.
NoPromptIdIsMalformed ==
    (TwoSlotJob /\ submitReply.kind = "ok_noid") =>
        /\ polls = 0
        /\ pc = "done" => (~response.ok /\ ~TimeoutResponse)

\* C10: for a two-slot workflow, when the POST is rejected with a non-success status, the request is
\* over with an error whose text contains the body of the backend's answer,
\* and no GET /history is sent.
RejectionCarriesBody ==
    (TwoSlotJob /\ submitReply.kind = "reject") =>
        /\ pc = "done"
        /\ ~response.ok
        /\ polls = 0
        /\ submitReply.body \in Pieces(response.error)

\* C11: an error response ends the request and carries no result, and a stage
\* that failed is the last one that ran: after a failed download nothing is
\* loaded, submitted or polled; after a workflow error nothing is submitted or
\* polled; after a failed POST nothing is polled; a wait that ended without a
\* completed entry is followed by no collecting and no delivery.
FailFast ==
    /\ (response.set /\ ~response.ok) =>
          pc = "done" /\ response.kind = "error" /\ response.value = <<>> /\ s3put = "none"
    /\ (response.set /\ response.error # <<>> /\ response.error[1] = "Failed to fetch inputs: ") =>
          loaded = NoGraph /\ posts = <<>> /\ polls = 0 /\ ~hist.present /\ images = <<>>
    /\ (response.set /\ response.error # <<>> /\ response.error[1] = "Workflow error: ") =>
          posts = <<>> /\ polls = 0 /\ ~hist.present /\ images = <<>>
    /\ submitReply.kind \in {"raise", "reject", "garbled"} =>
          pc = "done" /\ ~response.ok /\ polls = 0 /\ ~hist.present /\ images = <<>>
    /\ (pc = "done" /\ WaitEntered /\ ~(last.present /\ last.completed)) =>
          ~response.ok /\ ~hist.present /\ images = <<>>
    /\ (pc \in {"collect", "deliver"} \/ images # <<>>
          \/ response.error = <<"No images produced by workflow.">>) =>
          hist.present /\ hist.completed

\* C11 witness: the wait failed after polling and nothing was collected
FailFastWitness ==
    /\ pc = "done"
    /\ TimeoutResponse
    /\ polls = Timeout
    /\ last.present
    /\ images = <<>>

\* C12: every request comes back to the caller; with a job that never ends the
\* wait gives up at the deadline.
EventuallyReturns == <>(pc = "done" /\ response.set)

\* C12 witness: a job still running when the wait gave up with the timeout error
EventuallyReturnsWitness ==
    /\ pc = "done"
    /\ TimeoutResponse
    /\ job = "running"
    /\ clock = deadline
    /\ polls = Timeout

\* C13: the step in which the wait gives up sends nothing to the backend: the
\* job is in the state it was in, and no POST or GET is added.
TimeoutLeavesJobRunning ==
    [][ (pc = "wait" /\ pc' = "done" /\ ~(clock < deadline))
          => job' = job /\ posts' = posts /\ polls' = polls /\ Len(posts) = 1 ]_vars

\* C13 witness: timed out with the job still queued on the backend
TimeoutLeavesJobRunningWitness ==
    /\ TimeoutResponse
    /\ job = "queued"
    /\ Len(posts) = 1

\* C15: when the upload to S3 was tried and failed, the request still succeeds
\* and returns the first image from disk as base64.
UploadFailureNotFatal ==
    s3put = "failed" =>
        /\ pc = "done"
        /\ response.ok
        /\ response.kind = "result_b64"
        /\ response.value = <<"disk", images[1].subfolder, images[1].filename>>

\* C15 witness: a failed upload answered with base64
UploadFailureNotFatalWitness ==
    /\ s3put = "failed"
    /\ hist.completed
    /\ response.ok
    /\ response.note # <<>>

\* C19: a request without source or target, or with a "return" other than
\* url, b64 or none, never gets past validation: no download, no workflow
\* loaded, no POST, no GET, and its response is an error.
InvalidRequest(ev) == ~ev.source \/ ~ev.target \/ ev.ret \notin {"url", "b64", None}

ValidatesBeforeWork ==
    InvalidRequest(event) =>
        /\ pc \in {"start", "done"}
        /\ downloads = 0
        /\ loaded = NoGraph
        /\ posts = <<>>
        /\ polls = 0
        /\ pc = "done" => (response.set /\ ~response.ok)

\* C19 witness: a request with both images and return = "json" was refused
ValidatesBeforeWorkWitness ==
    /\ pc = "done"
    /\ event.source /\ event.target /\ event.ret = "json"
    /\ response.error = <<"Invalid 'return' value. Use 'url' or 'b64'.">>

\* C18: after the patch every node of the workflow is the node the file held,
\* except that the image parameter of the first and of the second counted
\* LoadImage node may hold the job's name; a third or later LoadImage node
\* and every other parameter are as they were, and a LoadImage node without
\* dict inputs is passed over, the roles going to the counted nodes after it.
PatchTouchesOnlyTwoImages ==
    PatchRan =>
        LET slots == FindAssetSlots(template) IN
        /\ Len(wf) = Len(template)
        /\ \A i \in 1..Len(template) :
              IF \E k \in 1..Len(slots) : k <= 2 /\ slots[k] = i
              THEN /\ [wf[i] EXCEPT !.image = template[i].image] = template[i]
                   /\ wf[i].image \in {template[i].image, src_name, tgt_name}
              ELSE wf[i] = template[i]
        /\ \A i \in 1..Len(template) :
              (IsLoadImage(template[i]) /\ ~HasInputs(template[i])) => wf[i] = template[i]
        /\ (Patchable(template) /\ Len(slots) >= 1) => wf[slots[1]].image = src_name
        /\ (Patchable(template) /\ Len(slots) >= 2) => wf[slots[2]].image = tgt_name

\* C18 witness: a LoadImage node without dict inputs ahead of two counted
\* nodes; the roles went to the second and third node
PatchTouchesOnlyTwoImagesWitness ==
    /\ PatchRan
    /\ Len(template) = 3
    /\ IsLoadImage(template[1]) /\ ~HasInputs(template[1])
    /\ wf[1] = template[1]
    /\ wf[2].image = src_name /\ wf[2].aux = "upload"
    /\ wf[3].image = tgt_name

\* class_type, lowercased, has the word w
HasWord(node, w) == \E j \in 1..Len(node.ct) : Lower(node.ct)[j] = w

\* the qualification rule as the specification words it: an image-loading
\* kind, or a string value under an image-like parameter name
QualifiesAsStated(node) ==
    /\ node.isdict
    /\ \/ node.ctstr /\ HasWord(node, "load") /\ HasWord(node, "image")
       \/ node.indict /\ node.image # Absent

\* C16: when the loop has returned, the nodes it counted are exactly the nodes
\* that qualify under the stated rule (load-and-image kind, or a string
\* image-like parameter), one per node, in document order.
SlotRuleAsStated ==
    spc = "returned" =>
        /\ \A i \in 1..Len(sfile) :
              (\E k \in 1..Len(scounted) : scounted[k] = i) <=> QualifiesAsStated(sfile[i])
        /\ \A k \in 1..Len(scounted) - 1 : scounted[k] < scounted[k + 1]

\* C14: whatever the interleaving, the graph a run POSTs is the graph that run
\* would POST alone: the workflow file patched with its own source and target
\* names; no other run's name is in it, and the two files it names are the
\* ones it wrote.
RunsDoNotInterfere ==
    \A r \in Runs :
        cpc[r] = "posted" =>
            /\ cposts[r] = patch_workflow_images(cfile, source_of(r), target_of(r)).doc
            /\ \A i \in 1..Len(cposts[r]) : \A q \in Runs \ {r} :
                  cposts[r][i].image \notin {source_of(q), target_of(q)}
            /\ <<source_of(r), r>> \in cfiles
            /\ <<target_of(r), r>> \in cfiles

\* C14 witness: run 2 loaded first and is half way through its patch loop
\* (source written, target not yet) when run 1, which loaded after it, has
\* patched both slots of its own object and POSTed
RunsDoNotInterfereWitness ==
    /\ cpc # <<>>
    /\ cpc[1] = "posted"
    /\ cpc[2] = "patch" /\ ccount[2] = 1
    /\ cref[2] = 1 /\ cref[1] = 2
    /\ ccount[1] = 2

\* C17: handler never lets an exception out and, until it has returned, always
\* has a step to take; what it returns has a boolean ok; ok is false when the
\* event or its input is not a dict, when op is missing or falsy, and when op
\* is not a registered name; a function is invoked only under the registered
\* name the body holds in op, with the keys of the body other than op.
HandlerTotal ==
    /\ ~hout.raised
    /\ hpc \in {"dispatch", "op"} => ENABLED HandlerNext
    /\ hpc = "done" =>
          /\ hout.resp.set
          /\ hout.resp.ok \in BOOLEAN
          /\ (~hevent.dict \/ ~hevent.body \/ Falsy(hevent.op) \/ hevent.op \notin OPS)
                => (~hout.resp.ok /\ hcalled = None)
    /\ hcalled # None =>
          /\ hevent.dict /\ hevent.body
          /\ hcalled = hevent.op
          /\ hcalled \in OPS
          /\ "op" \notin hpayload
          /\ hpayload = hevent.extra

\* C17 witness: faceswap was invoked with the body's other keys, raised, and
\* the dispatcher answered with an error response
HandlerTotalWitness ==
    /\ hpc = "done"
    /\ hcalled = "faceswap"
    /\ hpayload = {"source_url", "target_url"}
    /\ ~hout.resp.ok
    /\ hout.resp.error[1] = "Unhandled error: "

\* what holds of the installer at every moment
InstallerSafe ==
    ipc # "off" =>
        /\ \A r \in Repos :
              /\ iattempts[r] <= Tries
              /\ r \in icloned => (r \notin igaveup /\ ~(ipc = "clone" /\ irepo = r))
              /\ r \in igaveup => (iattempts[r] = Tries /\ r \notin icloned)
              /\ r \in ipresent => (iattempts[r] = 0 /\ r \notin icloned /\ ipip[r] = "none")
              /\ ipip[r] # "none" => r \in icloned
        /\ ipc = "done" =>
              /\ irepin # "none"
              /\ \A r \in Repos : r \in ipresent \cup icloned \cup igaveup
              /\ \A r \in icloned : ipip[r] # "none"

\* C20: clone_with_retry runs at most `tries` clones of a repository, none
\* after one succeeded, and gives up only after `tries` failures; main runs no
\* clone for a dest that exists, installs requirements only of repositories
\* it cloned, and, whatever clone or pip failed, goes through every
\* repository and reaches its end.
InstallerIsolatesFailures == []InstallerSafe /\ <>(ipc = "done")

\* C20 witness: main is done; the first repository failed all its clones, the
\* second was cloned at its second attempt and its pip install failed, the
\* third was cloned and installed
InstallerIsolatesFailuresWitness ==
    /\ ipc = "done"
    /\ 1 \in igaveup /\ iattempts[1] = Tries
    /\ 2 \in icloned /\ iattempts[2] = 2 /\ ipip[2] = "failed"
    /\ 3 \in icloned /\ ipip[3] = "ok"

====
